---- MODULE Spec2Model ----
(***************************************************************************)
(* A model of geomstats/geometry/poincare_ball.py: the PoincareBall domain *)
(* predicate `belongs` and the PoincareBallMetric operations mobius_add,   *)
(* exp, log, dist, retraction and inner_product_matrix.                    *)
(*                                                                         *)
(* Numbers.  The code computes on floating-point arrays.  Here a number is *)
(* a fixed-point decimal of 4 * FixLimbs fractional digits, over naturals  *)
(* of any size (TLC's integers are 32 bits wide and the tolerance 1e-6     *)
(* needs more); every operation rounds as a floating-point operation does. *)
(*                                                                         *)
(* Arrays.  An array lives in a memory cell; a caller's argument and a     *)
(* local name are references to cells, so that an in-place assignment of   *)
(* the code is a store to a cell and aliasing is visible.                  *)
(***************************************************************************)
EXTENDS Integers, Sequences, FiniteSets, TLC

----------------------------------------------------------------------------
(* Natural numbers of any size: little-endian sequences of limbs, the top  *)
(* limb not 0, <<>> for 0.  The operations are written without recursion   *)
(* over the limbs where the arithmetic allows it (carries by look-ahead),  *)
(* and a value used more than once is the parameter of an operator, which  *)
(* TLC evaluates once.                                                     *)

Limb == 100 * 100

Highest(S) == CHOOSE i \in S : \A j \in S : j <= i

\* a up to its highest limb that is not 0, nz the indices of those limbs
NCut(a, nz) == IF nz = {} THEN <<>> ELSE SubSeq(a, 1, Highest(nz))

NStrip(a) == NCut(a, {i \in 1..Len(a) : a[i] # 0})

\* the limbs of an integer k >= 0
NOfInt(k) == NStrip(<<k % Limb, (k \div Limb) % Limb, k \div (Limb * Limb)>>)

NAt(a, i) == IF i <= Len(a) THEN a[i] ELSE 0

\* a + b: the carry into limb i comes from a lower limb j whose sum
\* overflows, through limbs that sum to Limb - 1
NAddSum(a, b, i) == NAt(a, i) + NAt(b, i)

NAddCarry(a, b, i) ==
    IF \E j \in 1..(i - 1) :
          /\ NAddSum(a, b, j) >= Limb
          /\ \A k \in (j + 1)..(i - 1) : NAddSum(a, b, k) = Limb - 1
    THEN 1 ELSE 0

NAddLimbs(a, b, n) ==
    NStrip([i \in 1..(n + 1) |->
               (NAddSum(a, b, i) + NAddCarry(a, b, i)) % Limb])

NAdd(a, b) ==
    IF a = <<>> THEN b
    ELSE IF b = <<>> THEN a
    ELSE NAddLimbs(a, b, IF Len(a) >= Len(b) THEN Len(a) ELSE Len(b))

\* the sign of a - b for a and b of one length that differ at the limbs d
NCmpTop(a, b, d) ==
    IF d = {} THEN 0
    ELSE IF a[Highest(d)] < b[Highest(d)] THEN -1 ELSE 1

\* -1, 0, 1 as a < b, a = b, a > b
NCmp(a, b) ==
    IF Len(a) < Len(b) THEN -1
    ELSE IF Len(a) > Len(b) THEN 1
    ELSE NCmpTop(a, b, {i \in 1..Len(a) : a[i] # b[i]})

\* a - b for a >= b: the borrow from limb i comes from a lower limb j that
\* falls short, through limbs that are equal
NSubDiff(a, b, i) == a[i] - NAt(b, i)

NSubBorrow(a, b, i) ==
    IF \E j \in 1..(i - 1) :
          /\ NSubDiff(a, b, j) < 0
          /\ \A k \in (j + 1)..(i - 1) : NSubDiff(a, b, k) = 0
    THEN 1 ELSE 0

NSub(a, b) ==
    IF a = <<>> \/ b = <<>> THEN a
    ELSE NStrip([i \in 1..Len(a) |->
                    (NSubDiff(a, b, i) - NSubBorrow(a, b, i) + Limb) % Limb])

\* a * Limb^k and floor(a / Limb^k)
NShift(a, k) == IF a = <<>> THEN a ELSE [i \in 1..k |-> 0] \o a
NDrop(a, k) == IF Len(a) <= k THEN <<>> ELSE SubSeq(a, k + 1, Len(a))

\* a * k for 0 <= k < Limb: the low and the high halves of the limb products
NMulSmall(a, k) ==
    IF a = <<>> \/ k = 0 THEN <<>>
    ELSE NAdd([i \in 1..Len(a) |-> (a[i] * k) % Limb],
              <<0>> \o [i \in 1..Len(a) |-> (a[i] * k) \div Limb])

\* the sum of a[i] * b[p + 1 - i] for i in lo..hi, by halves
RECURSIVE NColumn(_, _, _, _, _)
NColumn(a, b, p, lo, hi) ==
    IF lo > hi THEN 0
    ELSE IF lo = hi THEN a[lo] * b[p + 1 - lo]
    ELSE NColumn(a, b, p, lo, (lo + hi) \div 2)
         + NColumn(a, b, p, (lo + hi) \div 2 + 1, hi)

\* the number whose limb p is col[p], a number of three limbs
NMulSplit(col) ==
    NAdd(NAdd([p \in 1..Len(col) |-> col[p] % Limb],
              <<0>> \o [p \in 1..Len(col) |-> (col[p] \div Limb) % Limb]),
         <<0, 0>> \o [p \in 1..Len(col) |-> col[p] \div (Limb * Limb)])

\* a * b: limb p of the product collects the column p
NMul(a, b) ==
    IF a = <<>> \/ b = <<>> THEN <<>>
    ELSE NMulSplit([p \in 1..(Len(a) + Len(b) - 1) |->
                       NColumn(a, b, p,
                               IF p > Len(b) THEN p + 1 - Len(b) ELSE 1,
                               IF p < Len(a) THEN p ELSE Len(a))])

\* floor(a / k) for 0 < k < Limb: long division from the top limb, r the
\* remainder and q the quotient so far; the test on q makes TLC evaluate
\* it at every step instead of building one nested expression
RECURSIVE NDivSmallFrom(_, _, _, _, _)
NDivSmallFrom(a, k, i, r, q) ==
    IF i = 0 THEN NStrip(q)
    ELSE IF r < 0 \/ Len(q) < 0 THEN <<>>
    ELSE NDivSmallFrom(a, k, i - 1, (r * Limb + a[i]) % k,
                       <<(r * Limb + a[i]) \div k>> \o q)

NDivSmall(a, k) ==
    IF a = <<>> THEN a ELSE NDivSmallFrom(a, k, Len(a), 0, <<>>)

\* the largest limb q with q * b <= cur, for cur < b * Limb and a top limb
\* of b of Limb / 2 or more: the two top limbs of cur divided by the top
\* limb of b are q, q + 1 or q + 2
NFits(cur, b, q) == NCmp(NMulSmall(b, q), cur) <= 0

NLower(cur, b, q) ==
    IF NFits(cur, b, q) THEN q
    ELSE IF NFits(cur, b, q - 1) THEN q - 1 ELSE q - 2

NGuess(cur, b) ==
    (NAt(cur, Len(b) + 1) * Limb + NAt(cur, Len(b))) \div b[Len(b)]

NQuotLimb(cur, b) ==
    IF NCmp(cur, b) < 0 THEN 0
    ELSE NLower(cur, b, IF NGuess(cur, b) >= Limb THEN Limb - 1
                        ELSE NGuess(cur, b))

\* long division from the top limb of a, r the remainder and q the
\* quotient so far: cur is r with limb i of a brought down, and d its
\* quotient limb
RECURSIVE NDivFrom(_, _, _, _, _)

NDivPut(a, b, i, q, cur, d) ==
    NDivFrom(a, b, i - 1, NSub(cur, NMulSmall(b, d)), <<d>> \o q)

NDivTake(a, b, i, q, cur) == NDivPut(a, b, i, q, cur, NQuotLimb(cur, b))

NDivFrom(a, b, i, r, q) ==
    IF i = 0 THEN NStrip(q)
    ELSE IF Len(q) < 0 \/ Len(r) < 0 THEN <<>>
    ELSE NDivTake(a, b, i, q, NStrip(<<a[i]>> \o r))

NDivLong(a, b) == NDivFrom(a, b, Len(a), <<>>, <<>>)

\* floor(a / b) for b > 0: both are first multiplied by the same limb d,
\* to make the top limb of b Limb / 2 or more
NDivScaled(a, b, d) == NDivLong(NMulSmall(a, d), NMulSmall(b, d))

NDiv(a, b) ==
    IF NCmp(a, b) < 0 THEN <<>>
    ELSE NDivScaled(a, b, Limb \div (b[Len(b)] + 1))

\* floor(sqrt(v)) for an integer 0 <= v < Limb * Limb: h its hundreds
NRootUnits(v, h) ==
    h + CHOOSE t \in 0..99 : /\ (h + t) * (h + t) <= v
                             /\ v < (h + t + 1) * (h + t + 1)

NRootSmall(v) ==
    NRootUnits(v, 100 * (CHOOSE s \in 0..99 :
                            /\ (100 * s) * (100 * s) <= v
                            /\ v < (100 * (s + 1)) * (100 * (s + 1))))

\* floor(sqrt(a)) by Newton's iteration from r >= floor(sqrt(a)), which
\* stays at or above the root and ends at the first r with r * r <= a
RECURSIVE NSqrtFrom(_, _)
NSqrtFrom(a, r) ==
    IF NCmp(NMul(r, r), a) <= 0 THEN r
    ELSE NSqrtFrom(a, NDivSmall(NAdd(r, NDiv(a, r)), 2))

\* the first r: above g, the root of the two top limbs of a, which is the
\* root's top limb for an even number of limbs and 1 / 100 of it for an
\* odd one
NSqrtAbove(a, g) ==
    NShift(NOfInt(IF Len(a) % 2 = 0 THEN g + 1 ELSE (g + 1) * 100),
           (Len(a) - 2) \div 2)

NSqrt(a) ==
    IF Len(a) = 0 THEN a
    ELSE IF Len(a) = 1 THEN NOfInt(NRootSmall(a[1]))
    ELSE NSqrtFrom(a, NSqrtAbove(a, NRootSmall(a[Len(a)] * Limb
                                               + a[Len(a) - 1])))

----------------------------------------------------------------------------
(* Machine numbers.  The code computes in floating point: every operation  *)
(* returns a rounded result.  A machine number here is a signed multiple   *)
(* of 1 / FixScale, [s |-> sign, n |-> magnitude * FixScale]; sums and     *)
(* differences are exact, and products, quotients, roots and the           *)
(* transcendental functions are rounded toward zero.                       *)

FixLimbs == 4

\* the magnitude of 1
FixScale == NShift(<<1>>, FixLimbs)

QMake(s, n) == IF n = <<>> THEN [s |-> 0, n |-> <<>>] ELSE [s |-> s, n |-> n]

\* the number p / q for integers p and q > 0
QFrac(p, q) == QMake(IF p < 0 THEN -1 ELSE 1,
                     NDiv(NShift(NOfInt(IF p < 0 THEN -p ELSE p), FixLimbs),
                          NOfInt(q)))

\* the integer p
QInt(p) == QMake(IF p < 0 THEN -1 ELSE 1,
                 NShift(NOfInt(IF p < 0 THEN -p ELSE p), FixLimbs))
QZero == QMake(0, <<>>)
QOne == QMake(1, FixScale)
QTwo == QInt(2)

\* what a division by zero or a 0/0 leaves in an array: numpy warns and
\* does not raise
QNaN == [s |-> 2, n |-> <<>>]
QInf == [s |-> 3, n |-> <<>>]
IsNum(x) == x.s \in {-1, 0, 1}

QNeg(x) == [x EXCEPT !.s = -x.s]
QAbs(x) == [x EXCEPT !.s = IF x.s = 0 THEN 0 ELSE 1]

\* x + y for x and y of opposite signs, c the sign of |x| - |y|
QAddMixed(x, y, c) ==
    IF c = 0 THEN QZero
    ELSE IF c > 0 THEN QMake(x.s, NSub(x.n, y.n))
    ELSE QMake(y.s, NSub(y.n, x.n))

QAdd(x, y) ==
    IF x.s = 0 THEN y
    ELSE IF y.s = 0 THEN x
    ELSE IF x.s = y.s THEN QMake(x.s, NAdd(x.n, y.n))
    ELSE QAddMixed(x, y, NCmp(x.n, y.n))

QSub(x, y) == QAdd(x, QNeg(y))

QMul(x, y) ==
    IF x.s = 0 \/ y.s = 0 THEN QZero
    ELSE QMake(x.s * y.s, NDrop(NMul(x.n, y.n), FixLimbs))

\* x / y for y # 0
QDiv(x, y) ==
    IF x.s = 0 THEN QZero
    ELSE QMake(x.s * y.s, NDiv(NShift(x.n, FixLimbs), y.n))

\* 1 / x for x # 0
QInv(x) == QDiv(QOne, x)

\* -1, 0, 1 as x < y, x = y, x > y
QCmp(x, y) == QSub(x, y).s

QLt(x, y) == QCmp(x, y) < 0
QLe(x, y) == QCmp(x, y) <= 0

----------------------------------------------------------------------------
(* The backend's irrational primitives on magnitudes (naturals scaled by   *)
(* FixScale), and on machine numbers.                                      *)

FMul(a, b) == NDrop(NMul(a, b), FixLimbs)
FDiv(a, b) == NDiv(NShift(a, FixLimbs), b)
FSqrt(a) == NSqrt(NShift(a, FixLimbs))

\* gs.sqrt, and the root in gs.linalg.norm, for x >= 0
QSqrt(x) == QMake(1, FSqrt(x.n))

\* the Taylor sum of e^y: sum is the sum of the terms before number k and
\* term = y^k / k!.  The test on sum makes TLC evaluate it at every step
\* instead of building one nested expression.
RECURSIVE FExpSeries(_, _, _, _)
FExpSeries(y, term, k, sum) ==
    IF term = <<>> THEN sum
    ELSE IF Len(sum) < 0 THEN <<>>
    ELSE FExpSeries(y, NDivSmall(FMul(term, y), k + 1), k + 1,
                    NAdd(sum, term))

RECURSIVE FSquareTimes(_, _)
FSquareTimes(a, k) ==
    IF k = 0 \/ a = <<>> THEN a ELSE FSquareTimes(FMul(a, a), k - 1)

\* e^y for y >= 0: e^(y / 2^8) by its series, squared 8 times
FExp(y) == FSquareTimes(FExpSeries(NDivSmall(y, 256), FixScale, 0, <<>>), 8)

\* tanh for x > 0: (e^2x - 1) / (e^2x + 1); an IEEE double tanh is exactly
\* 1.0 from x = 19.07 on, and so is this one from x = 20 on
QTanhRatio(e) == QMake(1, FDiv(NSub(e, FixScale), NAdd(e, FixScale)))

QTanhPos(x) ==
    IF NCmp(x.n, NMulSmall(FixScale, 20)) >= 0 THEN QOne
    ELSE QTanhRatio(FExp(NMulSmall(x.n, 2)))

\* gs.tanh, an odd function
QTanh(x) ==
    IF x.s = 0 THEN QZero
    ELSE IF x.s > 0 THEN QTanhPos(x)
    ELSE QNeg(QTanhPos(QAbs(x)))

\* the series y + y^3/3 + y^5/5 + ...: sum is the sum of the terms before
\* y^k / k and pow = y^k
RECURSIVE FAtanhSeries(_, _, _, _)
FAtanhSeries(ysq, pow, k, sum) ==
    IF pow = <<>> THEN sum
    ELSE IF Len(sum) < 0 THEN <<>>
    ELSE FAtanhSeries(ysq, FMul(pow, ysq), k + 2, NAdd(sum, NDivSmall(pow, k)))

\* arctanh of 0 <= t <= 1/3 by the series
FAtanhSmall(t) == FAtanhSeries(FMul(t, t), t, 1, <<>>)

\* log(2) and log(Limb) to seven limbs after the point, and to FixLimbs
Ln2Digits == <<1214, 7232, 941, 9453, 559, 4718, 6931>>
LnLimbDigits == <<8187, 1965, 3607, 1827, 1976, 4037, 2103, 9>>
Ln2 == NDrop(Ln2Digits, Len(Ln2Digits) - FixLimbs)
LnLimb == NDrop(LnLimbDigits, Len(LnLimbDigits) - 1 - FixLimbs)

\* 2 arctanh((m - 1) / (m + 1)) = log(m) for m in [1, 2)
FLogSeries(m) ==
    NMulSmall(FAtanhSmall(FDiv(NSub(m, FixScale), NAdd(m, FixScale))), 2)

\* log(z) for 1 <= z < Limb: z is halved j times into m in [1, 2), and
\* log(z) = j log(2) + log(m)
FLogHalved(z, j) ==
    NAdd(NMulSmall(Ln2, j), FLogSeries(NDivSmall(z, 2 ^ j)))

FLogLimb(z) ==
    FLogHalved(z, CHOOSE j \in 0..13 : /\ 2 ^ j <= z[Len(z)]
                                       /\ z[Len(z)] < 2 ^ (j + 1))

\* log(z) for z >= 1: with k whole limbs of z above the units,
\* log(z) = k log(Limb) + log(z / Limb^k)
FLogReduced(z, k) == NAdd(NMulSmall(LnLimb, k), FLogLimb(NDrop(z, k)))

FLog(z) == FLogReduced(z, Len(z) - (FixLimbs + 1))

\* arctanh of 0 <= y < 1: the series below 1/3, and from there on
\* log((1 + y) / (1 - y)) / 2
FAtanh(y) ==
    IF NCmp(NMulSmall(y, 3), FixScale) < 0 THEN FAtanhSmall(y)
    ELSE NDivSmall(FLog(FDiv(NAdd(FixScale, y), NSub(FixScale, y))), 2)

\* gs.arctanh for x >= 0: infinite at 1, not a number beyond
QArctanh(x) ==
    IF x.s = 0 THEN QZero
    ELSE IF NCmp(x.n, FixScale) = 0 THEN QInf
    ELSE IF NCmp(x.n, FixScale) > 0 THEN QNaN
    ELSE QMake(1, FAtanh(x.n))

\* gs.log for x >= 1
QLog(x) == QMake(1, FLog(x.n))

----------------------------------------------------------------------------
(* Vectors: sequences of machine numbers.  No arithmetic of the model is   *)
(* ever applied to a QNaN or a QInf.                                       *)

RECURSIVE VDotFrom(_, _, _)
VDotFrom(a, b, i) ==
    IF i > Len(a) \/ i > Len(b) THEN QZero
    ELSE QAdd(QMul(a[i], b[i]), VDotFrom(a, b, i + 1))

\* gs.einsum('...i,...i->...', a, b), one batch element
VDot(a, b) == VDotFrom(a, b, 1)
\* gs.sum(a ** 2, axis=-1), one batch element
VSq(a) == VDot(a, a)
VScale(c, a) == [i \in 1..Len(a) |-> QMul(c, a[i])]
\* the coordinate i of a vector, 0 beyond its length
VAt(a, i) == IF i <= Len(a) THEN a[i] ELSE QZero
VAdd(a, b) == [i \in 1..Len(a) |-> QAdd(a[i], VAt(b, i))]
VSub(a, b) == [i \in 1..Len(a) |-> QSub(a[i], VAt(b, i))]
VNeg(a) == [i \in 1..Len(a) |-> QNeg(a[i])]
VZero(d) == [i \in 1..d |-> QZero]
VNaN(d) == [i \in 1..d |-> QNaN]
VIsNum(a) == \A i \in 1..Len(a) : IsNum(a[i])

----------------------------------------------------------------------------
(* Program constants and the backend's comparison.                         *)

\* TOLERANCE = 1e-6 and EPSILON = 1e-6
TOLERANCE == QFrac(1, 1000000)
EPSILON == QFrac(1, 1000000)

\* numpy's isclose(x, 0.) with its default atol = 1e-8 (rtol scales the
\* second argument, which is 0)
ATOL == QFrac(1, 100000000)
IsCloseZero(x) == IsNum(x) /\ QLe(QAbs(x), ATOL)

\* gs.clip(x, lo, hi)
Clip(x, lo, hi) == IF QLt(x, lo) THEN lo ELSE IF QLt(hi, x) THEN hi ELSE x

----------------------------------------------------------------------------
(* PoincareBall.belongs, one batch element.                                *)

BelongsRow(point, tolerance) ==
    VIsNum(point) /\ QLt(VSq(point), QSub(QOne, tolerance))

\* gs.all(ball_manifold.belongs(points)) with the default tolerance
AllBelong(rows) == \A i \in 1..Len(rows) : BelongsRow(rows[i], TOLERANCE)

----------------------------------------------------------------------------
(* Memory: a sequence of cells, each holding an array as its sequence of   *)
(* batch elements.  A reference names a cell and the number of axes the    *)
(* holder sees (1: a lone vector, 2: a batch of vectors).                  *)

Ref(c, nd) == [cell |-> c, ndim |-> nd]
NoRef == Ref(0, 0)

\* a fresh array
Alloc(m, rows, nd) == [mem |-> Append(m, rows), ref |-> Ref(Len(m) + 1, nd)]

\* the array of cell c
Cell(m, c) == IF Len(m) < c THEN <<>> ELSE m[c]

\* an in-place assignment to the array of cell c
Store(m, c, rows) == [m EXCEPT ![c] = rows]

\* gs.to_ndarray(x, to_ndim=2): the backend converts with numpy's array
\* (a copy) or asarray (the same memory), and promotes a lone vector with
\* expand_dims (a view); `alias` chooses between the two
ToNdarray(m, r, alias) ==
    IF alias THEN [mem |-> m, ref |-> Ref(r.cell, 2)]
    ELSE Alloc(m, Cell(m, r.cell), 2)

Raised(m) == [mem |-> m, raised |-> TRUE, ref |-> NoRef]
Returned(a) == [mem |-> a.mem, raised |-> FALSE, ref |-> a.ref]

AnyTrue(mask) == \E i \in 1..Len(mask) : mask[i]

----------------------------------------------------------------------------
(* PoincareBallMetric.mobius_add                                           *)

\* line 229: the division by a zero denominator leaves no number
MobiusAddQuotient(add_nominator, add_denominator) ==
    IF add_denominator.s = 0 THEN VNaN(Len(add_nominator))
    ELSE VScale(QInv(add_denominator), add_nominator)

\* the formula with the sum of the squared norms in the denominator, in
\* place of their product
MobiusAddFormulaSum(a, b, norm_point_a, norm_point_b, sum_prod_a_b) ==
    MobiusAddQuotient(
        VAdd(VScale(QAdd(QAdd(QOne, QMul(QTwo, sum_prod_a_b)), norm_point_b),
                    a),
             VScale(QSub(QOne, norm_point_a), b)),
        QAdd(QAdd(QOne, QMul(QTwo, sum_prod_a_b)),
             QAdd(norm_point_a, norm_point_b)))

\* lines 221-229
MobiusAddFormula(a, b, norm_point_a, norm_point_b, sum_prod_a_b) ==
    MobiusAddQuotient(
        VAdd(VScale(QAdd(QAdd(QOne, QMul(QTwo, sum_prod_a_b)), norm_point_b),
                    a),
             VScale(QSub(QOne, norm_point_a), b)),
        QAdd(QAdd(QOne, QMul(QTwo, sum_prod_a_b)),
             QMul(norm_point_a, norm_point_b)))

\* the formula of lines 212-229 for one batch element
MobiusAddRow(a, b) == MobiusAddFormula(a, b, VSq(a), VSq(b), VDot(a, b))

\* mobius_add with the check of line 209 on point_a alone
MobiusAddCheckedFirst(m, A, B) ==
    IF ~AllBelong(A) THEN Raised(m)
    ELSE Returned(Alloc(m, [i \in 1..Len(A) |-> MobiusAddRow(A[i], B[i])],
                        2))

\* lines 205-231 on the converted arrays A and B: the check that raises,
\* and the formula
MobiusAddChecked(m, A, B) ==
    IF ~AllBelong(A) \/ ~AllBelong(B) THEN Raised(m)
    ELSE Returned(Alloc(m, [i \in 1..Len(A) |-> MobiusAddRow(A[i], B[i])],
                        2))

MobiusAddBoth(ta, tb) ==
    MobiusAddChecked(tb.mem, Cell(tb.mem, ta.ref.cell),
                     Cell(tb.mem, tb.ref.cell))

\* line 203
MobiusAddFirst(ta, point_b, alias) ==
    MobiusAddBoth(ta, ToNdarray(ta.mem, point_b, alias))

\* line 202, and from there on
MobiusAdd(m, point_a, point_b, alias) ==
    MobiusAddFirst(ToNdarray(m, point_a, alias), point_b, alias)

----------------------------------------------------------------------------
(* PoincareBallMetric.exp                                                  *)

\* gs.isclose((tangent_vec * tangent_vec).sum(axis=-1), 0.)
ZeroTan(TV) == [i \in 1..Len(TV) |-> IsCloseZero(VSq(TV[i]))]

\* lines 120-122: norm_tan[zero_tan] = EPSILON, in place
ExpGuardNorm(m, normCell, zero_tan) ==
    IF AnyTrue(zero_tan)
    THEN Store(m, normCell,
               [i \in 1..Len(zero_tan) |->
                   IF zero_tan[i] THEN <<EPSILON>>
                   ELSE Cell(m, normCell)[i]])
    ELSE m

\* line 110
ExpDen(norm_base_point) == QSub(QOne, QMul(norm_base_point, norm_base_point))

\* lines 116 and 126; on the unit sphere den is 0, lambda_base_point
\* infinite and its tanh 1
ExpFactor(den, norm_tan) ==
    IF den.s = 0 THEN QOne ELSE QTanh(QMul(QInv(den), norm_tan))

\* lines 106-126 for one batch element: direction * factor
ExpStep(tangent_vec, base_point, norm_tan) ==
    VScale(ExpFactor(ExpDen(QSqrt(VSq(base_point))), norm_tan),
           VScale(QInv(norm_tan), tangent_vec))

\* the assignment of line 134 the other way round:
\* base_point[zero_tan] = exp[zero_tan]
ExpOverrideBase(m, expCell, baseCell, zero_tan) ==
    IF AnyTrue(zero_tan)
    THEN Store(m, baseCell,
               [i \in 1..Len(zero_tan) |->
                   IF zero_tan[i] THEN Cell(m, expCell)[i]
                   ELSE Cell(m, baseCell)[i]])
    ELSE m

\* lines 130-134: exp[zero_tan] = base_point[zero_tan], in place
ExpOverride(m, expCell, baseCell, zero_tan) ==
    IF AnyTrue(zero_tan)
    THEN Store(m, expCell,
               [i \in 1..Len(zero_tan) |->
                   IF zero_tan[i] THEN Cell(m, baseCell)[i]
                   ELSE Cell(m, expCell)[i]])
    ELSE m

\* The steps of exp, the last one first; each passes on what it computed.
\* tt and tb are the converted tangent_vec and base_point.

\* lines 130-136
ExpReturn(exp, tt, tb) ==
    IF exp.raised THEN exp
    ELSE [exp EXCEPT !.mem = ExpOverride(exp.mem, exp.ref.cell, tb.cell,
                                         ZeroTan(Cell(exp.mem, tt.cell)))]

\* line 128
ExpAdd(w, tt, tb, alias) ==
    ExpReturn(MobiusAdd(w.mem, tb, w.ref, alias), tt, tb)

\* lines 124-126
ExpDirection(m, norm_tan, tt, tb, alias) ==
    ExpAdd(Alloc(m, [i \in 1..Len(Cell(m, tt.cell)) |->
                        ExpStep(Cell(m, tt.cell)[i], Cell(m, tb.cell)[i],
                                Cell(m, norm_tan.cell)[i][1])], 2),
           tt, tb, alias)

\* lines 118-122
ExpGuard(nt, tt, tb, alias) ==
    ExpDirection(ExpGuardNorm(nt.mem, nt.ref.cell,
                              ZeroTan(Cell(nt.mem, tt.cell))),
                 nt.ref, tt, tb, alias)

\* lines 112-114
ExpNorm(tt, tb, alias) ==
    ExpGuard(Alloc(tb.mem, [i \in 1..Len(Cell(tb.mem, tt.ref.cell)) |->
                               <<QSqrt(VSq(Cell(tb.mem, tt.ref.cell)[i]))>>],
                   2),
             tt.ref, tb.ref, alias)

\* line 104
ExpBase(tt, base_point, alias) ==
    ExpNorm(tt, ToNdarray(tt.mem, base_point, alias), alias)

\* line 103, and from there on
Exp(m, tangent_vec, base_point, alias) ==
    ExpBase(ToNdarray(m, tangent_vec, alias), base_point, alias)

----------------------------------------------------------------------------
(* PoincareBallMetric.log                                                  *)

\* lines 170-171; a zero norm_add divides 0 by 0, and a norm_add of 1 or
\* more has no finite arctanh
LogScaled(add_base_point, norm_add, norm_base_point, atanh) ==
    IF norm_add.s = 0 \/ ~IsNum(atanh) THEN VNaN(Len(add_base_point))
    ELSE VScale(QMul(QSub(QOne, QMul(norm_base_point, norm_base_point)),
                     atanh),
                [i \in 1..Len(add_base_point) |->
                    QDiv(add_base_point[i], norm_add)])

LogNorms(add_base_point, base_point, norm_add) ==
    LogScaled(add_base_point, norm_add, QSqrt(VSq(base_point)),
              QArctanh(norm_add))

\* lines 162-171 for one batch element
LogStep(add_base_point, base_point) ==
    LogNorms(add_base_point, base_point, QSqrt(VSq(add_base_point)))

\* gs.isclose(gs.squeeze(norm_add), 0.)
LogMask(ADD) == [i \in 1..Len(ADD) |-> IsCloseZero(QSqrt(VSq(ADD[i])))]

\* log without the assignment of line 175
LogOverrideNone(m, logCell, mask_0) == m

\* lines 173-175: log[mask_0] = 0, in place
LogOverride(m, logCell, mask_0) ==
    IF AnyTrue(mask_0)
    THEN Store(m, logCell,
               [i \in 1..Len(mask_0) |->
                   IF mask_0[i] THEN VZero(Len(Cell(m, logCell)[i]))
                   ELSE Cell(m, logCell)[i]])
    ELSE m

\* The steps of log, the last one first.  tb and tp are the converted
\* base_point and point.

\* lines 173-177
LogReturn(log, add) ==
    [mem    |-> LogOverride(log.mem, log.ref.cell,
                            LogMask(Cell(log.mem, add.cell))),
     raised |-> FALSE,
     ref    |-> log.ref]

\* lines 162-171
LogOfAdd(add, tb) ==
    IF add.raised THEN add
    ELSE LogReturn(Alloc(add.mem,
                         [i \in 1..Len(Cell(add.mem, add.ref.cell)) |->
                             LogStep(Cell(add.mem, add.ref.cell)[i],
                                     Cell(add.mem, tb.cell)[i])], 2),
                   add.ref)

\* line 161: the addition
LogAdd(neg, tb, tp, alias) ==
    LogOfAdd(MobiusAdd(neg.mem, neg.ref, tp, alias), tb)

\* line 161: -base_point
LogNegate(tb, tp, alias) ==
    LogAdd(Alloc(tp.mem, [i \in 1..Len(Cell(tp.mem, tb.ref.cell)) |->
                             VNeg(Cell(tp.mem, tb.ref.cell)[i])], 2),
           tb.ref, tp.ref, alias)

\* line 159
LogPoint(tb, point, alias) ==
    LogNegate(tb, ToNdarray(tb.mem, point, alias), alias)

\* line 158, and from there on
Log(m, point, base_point, alias) ==
    LogPoint(ToNdarray(m, base_point, alias), point, alias)

----------------------------------------------------------------------------
(* PoincareBallMetric.dist                                                 *)

\* the squared norm of one point without the clip of lines 251-252
DistNormUnclipped(point) == VSq(point)

\* lines 251-252: the clipped squared norm of one point
DistNorm(point) == Clip(VSq(point), QZero, QSub(QOne, EPSILON))

\* the divisor of line 256
DistDivisor(point_a, point_b) ==
    QMul(QSub(QOne, DistNorm(point_a)), QSub(QOne, DistNorm(point_b)))

\* line 255-256
DistRatio(diff_norm, divisor) ==
    IF divisor.s # 0 THEN QAdd(QOne, QDiv(QMul(QTwo, diff_norm), divisor))
    ELSE IF diff_norm.s = 0 THEN QNaN ELSE QInf

\* lines 254-256: norm_function
DistNormFunction(point_a, point_b) ==
    DistRatio(VSq(VSub(point_a, point_b)), DistDivisor(point_a, point_b))

\* the argument of the square root of line 258
DistRadicand(norm_function) == QSub(QMul(norm_function, norm_function), QOne)

\* line 258: the root of a negative number is not a number
DistArccosh(norm_function, radicand) ==
    IF radicand.s < 0 THEN QNaN
    ELSE QLog(QAdd(norm_function, QSqrt(radicand)))

DistOf(norm_function) ==
    IF ~IsNum(norm_function) THEN norm_function
    ELSE DistArccosh(norm_function, DistRadicand(norm_function))

\* lines 251-258 for one batch element
DistRow(point_a, point_b) == DistOf(DistNormFunction(point_a, point_b))

\* dist without the product of line 261
DistTimesUnscaled(dist, s) == dist

\* dist * self.scale for one batch element
DistTimes(dist, s) == IF IsNum(dist) THEN QMul(dist, QInt(s)) ELSE dist

\* line 261: dist *= self.scale, in place
DistScale(m, distCell, s) ==
    Store(m, distCell, [i \in 1..Len(Cell(m, distCell)) |->
                           <<DistTimes(Cell(m, distCell)[i][1], s)>>])

\* The steps of dist, the last one first.

\* lines 261-262
DistReturn(dist, s) ==
    [mem    |-> DistScale(dist.mem, dist.ref.cell, s),
     raised |-> FALSE,
     ref    |-> dist.ref]

\* line 260
DistColumn(dist, alias, s) ==
    DistReturn(ToNdarray(dist.mem, dist.ref, alias), s)

\* line 259
DistFlat(dist, alias, s) ==
    DistColumn(ToNdarray(dist.mem, dist.ref, alias), alias, s)

\* lines 251-258
DistBoth(ta, tb, alias, s) ==
    DistFlat(Alloc(tb.mem,
                   [i \in 1..Len(Cell(tb.mem, ta.ref.cell)) |->
                       <<DistRow(Cell(tb.mem, ta.ref.cell)[i],
                                 Cell(tb.mem, tb.ref.cell)[i])>>], 1),
             alias, s)

\* line 249
DistFirst(ta, point_b, alias, s) ==
    DistBoth(ta, ToNdarray(ta.mem, point_b, alias), alias, s)

\* line 248, and from there on
Dist(m, point_a, point_b, alias, s) ==
    DistFirst(ToNdarray(m, point_a, alias), point_b, alias, s)

----------------------------------------------------------------------------
(* PoincareBallMetric.retraction                                           *)

\* lines 293-298, one_minus = 1 - |base_point|^2
RetractionFactor(tangent_vec, base_point, one_minus) ==
    VSub(base_point,
         VScale(QDiv(QMul(one_minus, one_minus), QInt(4)), tangent_vec))

\* lines 293-298 for one batch element
RetractionRow(tangent_vec, base_point) ==
    RetractionFactor(tangent_vec, base_point, QSub(QOne, VSq(base_point)))

\* lines 293-298
RetractionBoth(tt, tb) ==
    Returned(Alloc(tb.mem,
                   [i \in 1..Len(Cell(tb.mem, tb.ref.cell)) |->
                       RetractionRow(Cell(tb.mem, tt.ref.cell)[i],
                                     Cell(tb.mem, tb.ref.cell)[i])], 2))

\* line 291
RetractionFirst(tt, base_point, alias) ==
    RetractionBoth(tt, ToNdarray(tt.mem, base_point, alias))

\* lines 284-288: the check, on base_point as the caller passed it; then
\* the conversion of line 290, and from there on
Retraction(m, tangent_vec, base_point, alias) ==
    IF ~AllBelong(Cell(m, base_point.cell)) THEN Raised(m)
    ELSE RetractionFirst(ToNdarray(m, tangent_vec, alias), base_point, alias)

----------------------------------------------------------------------------
(* PoincareBallMetric.inner_product_matrix                                 *)

\* the square of 2 / den; the division by a zero den leaves inf
LambdaOf(den) ==
    IF den.s = 0 THEN QInf ELSE QMul(QDiv(QTwo, den), QDiv(QTwo, den))

\* lines 316-317 for one batch element: (2 / (1 - |x|^2)) ** 2
LambdaBase(base_point) == LambdaOf(QSub(QOne, VSq(base_point)))

\* one entry of reshaped_lambda_base * reshaped_identity
IpmEntry(lambda_base, i, j) ==
    IF IsNum(lambda_base) THEN (IF i = j THEN lambda_base ELSE QZero)
    ELSE IF i = j THEN QInf ELSE QNaN

IpmMatrix(lambda_base, d) ==
    [i \in 1..d |-> [j \in 1..d |-> IpmEntry(lambda_base, i, j)]]

\* no to_ndarray here: n_sample is shape[0] and dim is shape[-1] of the
\* array as the caller passed it (lines 313-314), so that a lone vector of
\* dim entries has n_sample = dim; the product of line 329 broadcasts
\* lambda (n, d, d for a batch; d, d for a lone vector) against n_sample
\* identities
IpmProduct(m, rows, ndim, d) ==
    Returned(Alloc(m,
        [k \in 1..(IF ndim = 1 THEN Len(rows[1]) ELSE Len(rows)) |->
            IpmMatrix(LambdaBase(IF ndim = 1 THEN rows[1] ELSE rows[k]), d)],
        3))

IpmOf(bp, d) == IpmProduct(bp.mem, Cell(bp.mem, bp.ref.cell), bp.ref.ndim, d)

\* lines 311-312, and from there on
InnerProductMatrix(m, base_point, given, d) ==
    IpmOf(IF given THEN [mem |-> m, ref |-> base_point]
          ELSE Alloc(m, <<VZero(d)>>, 2),
          d)

----------------------------------------------------------------------------
(* PoincareBall.belongs on an array: one boolean per batch element.        *)

Belongs(m, point, tolerance) ==
    Returned(Alloc(m, [i \in 1..Len(Cell(m, point.cell)) |->
                         BelongsRow(Cell(m, point.cell)[i], tolerance)],
                   point.ndim - 1))

----------------------------------------------------------------------------
(* The arrays a caller passes.                                             *)

Dim == 2
MaxBatch == 2
MaxScale == 2

\* x on axis k, and (x, y) on the first two axes
Axis(x, k) == [i \in 1..Dim |-> IF i = k THEN x ELSE QZero]
Two(x, y) == [i \in 1..Dim |-> IF i = 1 THEN x ELSE IF i = 2 THEN y ELSE QZero]

\* points inside the ball, near its boundary, between the tolerance and the
\* boundary, on the boundary and outside
Points ==
    { Axis(QZero, 1),
      Axis(QFrac(1, 2), 1),
      Two(QFrac(3, 10), QFrac(4, 10)),
      Axis(QFrac(999, 1000), 1),
      Axis(QFrac(99996, 100000), 1),
      Axis(QFrac(9999996, 10000000), 1),
      Axis(QOne, 1),
      Axis(QTwo, 1) }

\* a point closer to the origin than the arithmetic resolves in a square
TinyPoint == Axis(QMake(1, NShift(<<1>>, FixLimbs \div 2 - 1)), 1)

\* tangent vectors: zero, numerically zero, ordinary and long
Tangents ==
    { Axis(QZero, 1),
      Axis(QFrac(9, 100000), 1),
      Axis(QFrac(8, 1000), 1),
      Axis(QFrac(1, 2), 1),
      Two(QFrac(3, 10), QFrac(4, 10)),
      Axis(QInt(20), 1) }

\* the elements of the batches
BatchPoints ==
    { Axis(QFrac(1, 2), 1), Two(QFrac(3, 10), QFrac(4, 10)), Axis(QOne, 1) }
BatchTangents == { Axis(QZero, 1), Axis(QFrac(1, 2), 1) }

\* the arrays a caller passes: a lone vector, or a batch of 1 to MaxBatch
\* vectors, which repeats one vector and ends with another
Arrays(all, some) ==
    { [ndim |-> 1, rows |-> <<v>>] : v \in all }
    \cup UNION { { [ndim |-> 2,
                    rows |-> [i \in 1..n |-> IF i < n THEN q ELSE p]] :
                   p \in some, q \in some } : n \in 1..MaxBatch }

PointArrays == Arrays(Points \cup {TinyPoint}, BatchPoints)
TangentArrays == Arrays(Tangents, BatchTangents)

SameShape(a, b) == a.ndim = b.ndim /\ Len(a.rows) = Len(b.rows)

----------------------------------------------------------------------------
(* The state: a metric, and a caller that makes one call after another.    *)

VARIABLES
    dimension,  \* the metric's dimension (line 79)
    scale,      \* the metric's scale (line 85)
    pc,         \* "idle", or "returned" from the call named by op
    op,         \* the operation called last
    argA,       \* the caller's first array as passed: [ndim, rows]
    argB,       \* the caller's second array as passed, NoArray without one
    mem,        \* memory: cell 1 holds argA's array, cell 2 argB's
    ret,        \* [raised, ref]: the call raised, or returned mem[ref.cell]
    exp_of      \* for a log of an exp's result: the tangent array of that exp

vars == <<dimension, scale, pc, op, argA, argB, mem, ret, exp_of>>

NoArray == [ndim |-> 0, rows |-> <<>>]

Init ==
    /\ dimension = Dim
    /\ scale \in 1..MaxScale
    /\ pc = "idle"
    /\ op = "none"
    /\ argA = NoArray
    /\ argB = NoArray
    /\ mem = <<>>
    /\ ret = [raised |-> FALSE, ref |-> NoRef]
    /\ exp_of = NoArray

\* the caller's memory before a call of two arrays
Mem2(a, b) == <<a.rows, b.rows>>

\* the state after a call that ended as r
Ends(name, a, b, r, from) ==
    /\ pc' = "returned"
    /\ op' = name
    /\ argA' = a
    /\ argB' = b
    /\ mem' = r.mem
    /\ ret' = [raised |-> r.raised, ref |-> r.ref]
    /\ exp_of' = from
    /\ UNCHANGED <<dimension, scale>>

CallBelongs ==
    /\ pc = "idle"
    /\ \E a \in PointArrays, tol \in {TOLERANCE, QFrac(1, 1000)} :
          Ends("belongs", a, NoArray,
               Belongs(<<a.rows>>, Ref(1, a.ndim), tol), NoArray)

CallMobiusAdd ==
    /\ pc = "idle"
    /\ \E a \in PointArrays, b \in PointArrays, alias \in BOOLEAN :
          /\ SameShape(a, b)
          /\ Ends("mobius_add", a, b,
                  MobiusAdd(Mem2(a, b), Ref(1, a.ndim), Ref(2, b.ndim), alias),
                  NoArray)

CallExp ==
    /\ pc = "idle"
    /\ \E t \in TangentArrays, b \in PointArrays, alias \in BOOLEAN :
          /\ SameShape(t, b)
          /\ Ends("exp", t, b,
                  Exp(Mem2(t, b), Ref(1, t.ndim), Ref(2, b.ndim), alias),
                  NoArray)

CallLog ==
    /\ pc = "idle"
    /\ \E a \in PointArrays, b \in PointArrays, alias \in BOOLEAN :
          /\ SameShape(a, b)
          /\ Ends("log", a, b,
                  Log(Mem2(a, b), Ref(1, a.ndim), Ref(2, b.ndim), alias),
                  NoArray)

\* the caller passes the array an exp returned, with that exp's base_point
CallLogOfExp ==
    /\ pc = "returned" /\ op = "exp" /\ ~ret.raised
    /\ \E alias \in BOOLEAN :
          Ends("log", [ndim |-> 2, rows |-> mem[ret.ref.cell]], argB,
               Log(<<mem[ret.ref.cell], argB.rows>>, Ref(1, 2),
                   Ref(2, argB.ndim), alias),
               argA)

CallDist ==
    /\ pc = "idle"
    /\ \E a \in PointArrays, b \in PointArrays, alias \in BOOLEAN :
          /\ SameShape(a, b)
          /\ Ends("dist", a, b,
                  Dist(Mem2(a, b), Ref(1, a.ndim), Ref(2, b.ndim), alias,
                       scale),
                  NoArray)

CallRetraction ==
    /\ pc = "idle"
    /\ \E t \in TangentArrays, b \in PointArrays, alias \in BOOLEAN :
          /\ SameShape(t, b)
          /\ Ends("retraction", t, b,
                  Retraction(Mem2(t, b), Ref(1, t.ndim), Ref(2, b.ndim),
                             alias),
                  NoArray)

CallInnerProductMatrix ==
    /\ pc = "idle"
    /\ \/ \E a \in PointArrays :
             Ends("inner_product_matrix", a, NoArray,
                  InnerProductMatrix(<<a.rows>>, Ref(1, a.ndim), TRUE,
                                     dimension),
                  NoArray)
       \/ Ends("inner_product_matrix", NoArray, NoArray,
               InnerProductMatrix(<<>>, NoRef, FALSE, dimension), NoArray)

\* the caller drops the arrays of the last call
Release ==
    /\ pc = "returned"
    /\ pc' = "idle"
    /\ op' = "none"
    /\ argA' = NoArray
    /\ argB' = NoArray
    /\ mem' = <<>>
    /\ ret' = [raised |-> FALSE, ref |-> NoRef]
    /\ exp_of' = NoArray
    /\ UNCHANGED <<dimension, scale>>

Next ==
    \/ CallBelongs
    \/ CallMobiusAdd
    \/ CallExp
    \/ CallLog
    \/ CallLogOfExp
    \/ CallDist
    \/ CallRetraction
    \/ CallInnerProductMatrix
    \/ Release

Spec == Init /\ [][Next]_vars

----------------------------------------------------------------------------
(* What the claims speak of, read from the state after a call.             *)

After(name) == pc = "returned" /\ op = name

\* the array a call returned
Result == mem[ret.ref.cell]

\* 1e-6 and 1e-8
Millionth == QFrac(1, 1000000)
HundredMillionth == QFrac(1, 100000000)

\* a Point of the data model: squared norm below 1 - 1e-6
IsPoint(p) == QLt(VSq(p), QSub(QOne, Millionth))
ArePoints(rows) == \A i \in 1..Len(rows) : IsPoint(rows[i])

IsZeroVector(v) == \A i \in 1..Len(v) : v[i] = QZero

\* the tangent vectors exp takes for zero
NumericallyZero(v) == QLe(VSq(v), HundredMillionth)

\* x and y differ by 1e-6 at most
Close(x, y) == IsNum(x) /\ IsNum(y) /\ QLe(QAbs(QSub(x, y)), Millionth)
VClose(a, b) == Len(a) = Len(b) /\ \A i \in 1..Len(a) : Close(a[i], b[i])

\* the caller's arrays, where the caller holds them, are as they were passed
CallerArraysKept ==
    /\ argA # NoArray => mem[1] = argA.rows
    /\ argB # NoArray => mem[2] = argB.rows

\* what dist returns for the points a and b under the scale s
DistOut(a, b, s) == DistTimes(DistRow(a, b), s)

----------------------------------------------------------------------------
(* The claims.                                                             *)

\* C1: mobius_add raises exactly when an element of a or of b is no Point
\* (squared norm >= 1 - 1e-6), retraction exactly when an element of
\* base_point is none; both raise for a squared norm >= 1, and a call that
\* raises returns no array.
C1_RaisesExactlyOutsideBall ==
    /\ After("mobius_add") =>
          /\ ret.raised <=> (~ArePoints(argA.rows) \/ ~ArePoints(argB.rows))
          /\ ret.raised => ret.ref = NoRef
          /\ (\E i \in 1..Len(argA.rows) : ~QLt(VSq(argA.rows[i]), QOne))
                => ret.raised
          /\ (\E i \in 1..Len(argB.rows) : ~QLt(VSq(argB.rows[i]), QOne))
                => ret.raised
    /\ After("retraction") =>
          /\ ret.raised <=> ~ArePoints(argB.rows)
          /\ ret.raised => ret.ref = NoRef
          /\ (\E i \in 1..Len(argB.rows) : ~QLt(VSq(argB.rows[i]), QOne))
                => ret.raised

\* a batch with a Point and an element on the unit sphere made mobius_add
\* raise
C1_Witness ==
    /\ After("mobius_add") /\ ret.raised
    /\ argA.ndim = 2 /\ Len(argA.rows) = 2
    /\ IsPoint(argA.rows[1]) /\ ~IsPoint(argA.rows[2])
    /\ ArePoints(argB.rows)

\* C2: exp of a tangent array at Points does not raise, and every entry
\* whose tangent vector is numerically zero equals base_point's entry.
C2_ExpAtZero ==
    (After("exp") /\ ArePoints(argB.rows)
       /\ \E i \in 1..Len(argA.rows) : NumericallyZero(argA.rows[i]))
    => /\ ~ret.raised
       /\ \A i \in 1..Len(argA.rows) :
             NumericallyZero(argA.rows[i]) => Result[i] = argB.rows[i]

\* C3: log(base_point, base_point) at Points does not raise and returns
\* zero vectors.
C3_LogOfCoincident ==
    (After("log") /\ argA.rows = argB.rows /\ ArePoints(argB.rows))
    => /\ ~ret.raised
       /\ Len(Result) = Len(argB.rows)
       /\ \A i \in 1..Len(Result) :
             Len(Result[i]) = Dim /\ IsZeroVector(Result[i])

\* log of a batch of two Points away from the origin at themselves
C3_Witness ==
    /\ After("log") /\ ~ret.raised
    /\ argA.rows = argB.rows /\ ArePoints(argB.rows)
    /\ Len(argB.rows) = 2
    /\ ~IsZeroVector(argB.rows[1]) /\ ~IsZeroVector(argB.rows[2])

\* C4: every entry exp returns for base Points is a Point.
C4_ExpReturnsPoints ==
    (After("exp") /\ ArePoints(argB.rows) /\ ~ret.raised)
    => ArePoints(Result)

\* C5: log(exp(v, base_point), base_point) for base Points and small v
\* (|v| < 1/10) does not raise and returns v to 1e-6.
C5_RoundTrip ==
    (After("log") /\ exp_of # NoArray /\ ArePoints(argB.rows)
       /\ \A i \in 1..Len(exp_of.rows) :
             QLt(VSq(exp_of.rows[i]), QFrac(1, 100)))
    => /\ ~ret.raised
       /\ \A i \in 1..Len(exp_of.rows) : VClose(Result[i], exp_of.rows[i])

\* C6: belongs, dist and inner_product_matrix do not raise, whatever the
\* points; in dist the clipped squared norms are in [0, 1 - EPSILON], the
\* divisor is positive, the argument of the root is not negative, and the
\* distance a number.
C6_NeverRaise ==
    /\ (pc = "returned" /\ op \in {"belongs", "dist", "inner_product_matrix"})
          => ~ret.raised
    /\ After("dist") =>
          \A i \in 1..Len(argA.rows) :
             /\ QLe(QZero, DistNorm(argA.rows[i]))
             /\ QLe(DistNorm(argA.rows[i]), QSub(QOne, EPSILON))
             /\ QLe(QZero, DistNorm(argB.rows[i]))
             /\ QLe(DistNorm(argB.rows[i]), QSub(QOne, EPSILON))
             /\ DistDivisor(argA.rows[i], argB.rows[i]).s = 1
             /\ IsNum(DistNormFunction(argA.rows[i], argB.rows[i]))
             /\ DistRadicand(DistNormFunction(argA.rows[i],
                                              argB.rows[i])).s >= 0
             /\ IsNum(Result[i][1])

\* dist of a point outside the unit sphere and one on it
C6_Witness ==
    /\ After("dist") /\ ~ret.raised
    /\ ~QLe(VSq(argA.rows[1]), QOne)
    /\ VSq(argB.rows[1]) = QOne
    /\ IsNum(Result[1][1])

\* C7 as stated: dist(a, b) under the scale s is s times dist(b, a) under
\* the scale 1 (for s = 1 the symmetry, and with the symmetry the scaling),
\* and it is 0 if and only if the points are equal.
C7_ScaledDistance ==
    After("dist") =>
       \A i \in 1..Len(argA.rows) :
          /\ Result[i][1]
                = QMul(DistOut(argB.rows[i], argA.rows[i], 1), QInt(scale))
          /\ Result[i][1] = QZero <=> argA.rows[i] = argB.rows[i]

\* C7 as the code has it: dist(a, b) under the scale s is s times
\* dist(b, a) under the scale 1, and it is 0 for equal points (so that a
\* distance other than 0 is one of different points, and no more).
C7_ScaledSymmetric ==
    After("dist") =>
       \A i \in 1..Len(argA.rows) :
          /\ Result[i][1]
                = QMul(DistOut(argB.rows[i], argA.rows[i], 1), QInt(scale))
          /\ argA.rows[i] = argB.rows[i] => Result[i][1] = QZero
          /\ Result[i][1] # QZero => argA.rows[i] # argB.rows[i]

\* a distance that is not 0, under the scale 2, with an equal pair in the
\* same batch
C7_Witness ==
    /\ After("dist") /\ scale = 2
    /\ Len(argA.rows) = 2
    /\ argA.rows[1] = argB.rows[1] /\ Result[1][1] = QZero
    /\ argA.rows[2] # argB.rows[2] /\ Result[2][1].s = 1

\* C8: a call that does not raise returns one output for each element of
\* the batch it was given, a lone vector being a batch of one (and
\* inner_product_matrix without an argument one matrix).
C8_OneOutputPerElement ==
    (pc = "returned" /\ ~ret.raised)
    => Len(Result) = IF argA = NoArray THEN 1 ELSE Len(argA.rows)

\* C9: mobius_add(zero_vector, b) for Points b does not raise and
\* returns b.
C9_LeftIdentity ==
    (After("mobius_add") /\ ArePoints(argB.rows)
       /\ \A i \in 1..Len(argA.rows) : IsZeroVector(argA.rows[i]))
    => /\ ~ret.raised
       /\ Result = argB.rows

\* mobius_add of the zero vector and a Point with two coordinates not 0
C9_Witness ==
    /\ After("mobius_add") /\ ~ret.raised
    /\ \A i \in 1..Len(argA.rows) : IsZeroVector(argA.rows[i])
    /\ \A j \in 1..2 : argB.rows[1][j] # QZero
    /\ Result = argB.rows

\* C10: no step changes the metric's dimension or scale, and every call,
\* raising or not, leaves the caller's arrays as they were passed.
C10_Pure ==
    [][/\ dimension' = dimension
       /\ scale' = scale
       /\ pc' = "returned" => CallerArraysKept']_vars

\* an exp that wrote in place into norm_tan and into its result, its
\* conversions sharing the caller's memory (five arrays in all)
C10_Witness ==
    /\ After("exp") /\ ~ret.raised
    /\ Len(mem) = 5
    /\ \E i \in 1..Len(argA.rows) :
          NumericallyZero(argA.rows[i]) /\ ~IsZeroVector(argA.rows[i])
    /\ CallerArraysKept

====
